---- MODULE Spec2Model ----
(***************************************************************************)
(* The announce/scrape engine of the goat BitTorrent tracker               *)
(* (trackerAnnounce, trackerScrape and the response builders), the store   *)
(* it reads and writes, and the goroutines it dispatches (log saves, file  *)
(* saves, file/user saves, peer reapers).                                  *)
(*                                                                         *)
(* Every request of a run is one slot p: the handler goroutine of that     *)
(* request with its arguments and locals (req, file, loaded, fileUser),    *)
(* the messages it sent on its result channel (res) and the goroutines it  *)
(* started that still run (tasks).  A handler runs as one action: its      *)
(* store accesses are a read of the files table and a read of the          *)
(* files_users table, and every write it causes is dispatched with `go`    *)
(* and applied by an action of its own, so the load of one announce and    *)
(* the save of another interleave freely.                                  *)
(***************************************************************************)
EXTENDS Integers, Sequences, FiniteSets, TLC

\* ------------------------------------------------------------------ bounds
NumReqs == 2         \* requests handled in one run
MaxVal == 1          \* uploaded, downloaded and left range over 0..MaxVal
MaxTransID == 2      \* UDP transaction ids range over 1..MaxTransID
TickStep == 60       \* seconds the clock advances in one step
MaxTime == 180       \* the clock stops here
Interval == 3600     \* static.Config.Interval, the steady-state announce interval

MaxAccepts == 2      \* requests accepted per protocol in one run
MaxUserID == 4       \* the users table's auto-increment counter stops here
MaxSeed == 3         \* passkeys are generated from seeds 1..MaxSeed

ScrapeMax == 70      \* info-hashes udpScrapePacket.FromBytes reads at most
PasskeyLen == 40     \* users.passkey is char(40)
UsernameLen == 20    \* users.username is varchar(20)

Slots == 1..NumReqs
\* h1 is a verified torrent, h2 is unknown to the tracker, h3 awaits approval.
Hashes == {"h1", "h2", "h3"}
IPs == {"ip1", "ip2"}
UserIDs == {1}
Events == {"", "started", "completed", "stopped"}
Vals == 0..MaxVal
TransIDs == 1..MaxTransID
ConnIDs == {"c1", "c2"}
Addrs == {"a1", "a2"}

VARIABLES
    files,        \* the files table: a set of rows [ID, InfoHash, Verified]
    fileUsers,    \* the files_users table: a set of fileUserRecord rows
    pc,           \* pc[p]: "idle" before request p arrives, "done" once its handler returned
    req,          \* req[p]: the request handed to the handler
    file,         \* file[p]: the handler's local `file`
    loaded,       \* loaded[p]: what fileUserRecord.Load returned to the handler
    fileUser,     \* fileUser[p]: the handler's local `fileUser` as handed to Save
    res,          \* res[p]: the messages sent on the request's resChan, in order
    tasks,        \* tasks[p]: the goroutines the handler started that have not finished
    connTable,    \* the UDP connection table: conn_id -> (peer_addr, issued_at)
    now,          \* the clock, in seconds
    static,       \* the process-wide singleton: configuration and request counters
    printer,      \* the goroutine that runs printCurrentStatus: position, locals, log lines
    users,        \* the users table and its auto-increment counter
    session       \* an administrator's session on one UserRecord: position and locals

vars == <<files, fileUsers, pc, req, file, loaded, fileUser, res, tasks, connTable, now,
          static, printer, users, session>>

\* Everything but the counters and the status printer.
engineVars == <<files, fileUsers, pc, req, file, loaded, fileUser, res, tasks, connTable, now,
                users, session>>

\* Everything but the users table and the administrator's session.
trackerVars == <<files, fileUsers, pc, req, file, loaded, fileUser, res, tasks, connTable, now,
                 static, printer>>

\* ------------------------------------------------------------- zero values
\* fileRecord{}, fileUserRecord{} and announceLog{}: what Load and FromMap
\* return when nothing matches.
ZeroFile == [ID |-> 0, InfoHash |-> "", Verified |-> FALSE]

ZeroFileUser ==
    [FileID |-> 0, UserID |-> 0, IP |-> "", Active |-> FALSE, Completed |-> FALSE,
     Announced |-> 0, Uploaded |-> 0, Downloaded |-> 0, Left |-> 0]

ZeroAnnounce ==
    [InfoHash |-> "", IP |-> "", Event |-> "", UDP |-> FALSE,
     Uploaded |-> 0, Downloaded |-> 0, Left |-> 0]

NoReq == [op |-> "none"]

NoConn == [addr |-> "", issued |-> 0]

\* ------------------------------------------------------------------ queries
\* The query map handed to a handler.  A malformed query lacks a required
\* field or carries a non-integer; FromMap turns it into the zero value.
MalformedQuery == [wellFormed |-> FALSE]

\* What a client reports of a torrent of MaxVal pieces: what it has and what
\* it lacks add up to the torrent.
Reports ==
    {r \in [uploaded : Vals, downloaded : Vals, left : Vals] :
        r.downloaded + r.left = MaxVal}

\* Parameter values that the engine parses itself are strings: sequences of
\* characters.  A parameter that is not in the map reads as the empty string.
NumwantQuery(udp, hash, ip, event, report, numwant) ==
    [wellFormed |-> TRUE, udp |-> udp, info_hash |-> hash, ip |-> ip,
     event |-> event, uploaded |-> report.uploaded,
     downloaded |-> report.downloaded, left |-> report.left,
     numwant |-> numwant]

\* An HTTP query without numwant; a UDP query, in which ToValues always sets
\* numwant, asking for the default.
AnnounceQuery(udp, hash, ip, event, report) ==
    NumwantQuery(udp, hash, ip, event, report, IF udp THEN <<"5", "0">> ELSE <<>>)

ScrapeQuery(hash, ip) == [wellFormed |-> TRUE, info_hash |-> hash, ip |-> ip]

\* transID is nil for an HTTP request.
AnnounceReq(user, query, transID) ==
    [op |-> "announce", user |-> user, query |-> query, transID |-> transID]

ScrapeReq(user, query) ==
    [op |-> "scrape", user |-> user, query |-> query, transID |-> 0]

AnnounceFromMap(query) ==
    IF ~query.wellFormed THEN ZeroAnnounce
    ELSE [InfoHash |-> query.info_hash, IP |-> query.ip, Event |-> query.event,
          UDP |-> query.udp, Uploaded |-> query.uploaded,
          Downloaded |-> query.downloaded, Left |-> query.left]

\* ------------------------------------------------------------------- store
FileLoad(hash) ==
    IF \E f \in files : f.InfoHash = hash
    THEN CHOOSE f \in files : f.InfoHash = hash
    ELSE ZeroFile

\* INSERT of a new file row: the unique key on info_hash rejects a second row.
FileSaveRows(rows, rec) ==
    IF \E f \in rows : f.InfoHash = rec.InfoHash
    THEN rows
    ELSE rows \cup {[rec EXCEPT !.ID = Cardinality(rows) + 1]}

SameTriple(a, b) ==
    a.FileID = b.FileID /\ a.UserID = b.UserID /\ a.IP = b.IP

FileUserLoad(fileID, userID, ip) ==
    IF \E r \in fileUsers : r.FileID = fileID /\ r.UserID = userID /\ r.IP = ip
    THEN CHOOSE r \in fileUsers : r.FileID = fileID /\ r.UserID = userID /\ r.IP = ip
    ELSE ZeroFileUser

\* Upsert of a files_users row keyed by (file_id, user_id, ip).
FileUserSaveRows(rows, rec) ==
    {r \in rows : ~SameTriple(r, rec)} \cup {rec}

\* ------------------------------------------------------------------ strconv
DigitChars == <<"0", "1", "2", "3", "4", "5", "6", "7", "8", "9">>

IsDigit(c) == \E d \in 1..10 : DigitChars[d] = c

DigitVal(c) == (CHOOSE d \in 1..10 : DigitChars[d] = c) - 1

RECURSIVE DigitsVal(_)
DigitsVal(s) ==
    IF s = <<>> THEN 0
    ELSE 10 * DigitsVal(SubSeq(s, 1, Len(s) - 1)) + DigitVal(s[Len(s)])

AllDigits(s) == s # <<>> /\ \A i \in 1..Len(s) : IsDigit(s[i])

\* strconv.Atoi: an optional sign and decimal digits, or an error.
Atoi(s) ==
    IF s # <<>> /\ s[1] \in {"+", "-"}
    THEN IF AllDigits(Tail(s))
         THEN [ok |-> TRUE, val |-> IF s[1] = "-" THEN 0 - DigitsVal(Tail(s))
                                    ELSE DigitsVal(Tail(s))]
         ELSE [ok |-> FALSE, val |-> 0]
    ELSE IF AllDigits(s)
         THEN [ok |-> TRUE, val |-> DigitsVal(s)]
         ELSE [ok |-> FALSE, val |-> 0]

\* -------------------------------------------------------- bytes and slices
\* A byte is a number in 0..255.  A []byte is its length and the bytes of its
\* backing array up to its capacity: indexing is checked against the length,
\* slicing against the capacity.
Buf(len, bytes) == [len |-> len, bytes |-> bytes]

Cap(buf) == Len(buf.bytes)

\* buf[i] does not panic.
IndexOK(buf, i) == 0 <= i /\ i < buf.len

\* buf[lo:hi] does not panic.
SliceOK(buf, lo, hi) == 0 <= lo /\ lo <= hi /\ hi <= Cap(buf)

\* The bytes of buf[lo:hi].
Slice(buf, lo, hi) == SubSeq(buf.bytes, lo + 1, hi)

\* An unsigned integer is held as its 16-bit words, most significant first:
\* two words for a uint32, four for a uint64 or a non-negative int64.
BigEndianWords(b) ==
    [i \in 1..(Len(b) \div 2) |-> 256 * b[2 * i - 1] + b[2 * i]]

\* binary.Write of an unsigned integer, big-endian.
BigEndianBytes(w) ==
    [i \in 1..(2 * Len(w)) |->
        IF i % 2 = 1 THEN w[(i + 1) \div 2] \div 256 ELSE w[i \div 2] % 256]

\* uint32(n) of an int.
ToUint32(n) == <<(n \div 65536) % 65536, n % 65536>>

\* int64(n) of a small non-negative int.
ToInt64(n) == <<0, 0, n \div 65536, n % 65536>>

HexChars ==
    <<"0", "1", "2", "3", "4", "5", "6", "7", "8", "9", "a", "b", "c", "d", "e", "f">>

\* hex.EncodeToString
HexEncodeToString(b) ==
    [i \in 1..(2 * Len(b)) |->
        IF i % 2 = 1 THEN HexChars[(b[(i + 1) \div 2] \div 16) + 1]
        ELSE HexChars[(b[i \div 2] % 16) + 1]]

IsHex(c) == \E d \in 1..16 : HexChars[d] = c

HexVal(c) == (CHOOSE d \in 1..16 : HexChars[d] = c) - 1

\* The position of the first digit of s that is not a zero.
LeadIdx(s) ==
    IF \A i \in 1..Len(s) : s[i] = "0" THEN Len(s) + 1
    ELSE CHOOSE k \in 1..Len(s) : s[k] # "0" /\ \A j \in 1..(k - 1) : s[j] = "0"

\* The value of at most 16 hex digits, as four words.
HexWords(s) ==
    LET digit(j) == IF j <= 16 - Len(s) THEN 0 ELSE HexVal(s[j - (16 - Len(s))])
    IN  [i \in 1..4 |-> 4096 * digit(4 * i - 3) + 256 * digit(4 * i - 2)
                          + 16 * digit(4 * i - 1) + digit(4 * i)]

\* strconv.ParseInt(s, 16, bitSize) of an unsigned digit string: a syntax
\* error unless every character is a hex digit, a range error unless the
\* value is below 2^(bitSize-1).
ParseInt(s, bitSize) ==
    IF s = <<>> \/ \E i \in 1..Len(s) : ~IsHex(s[i])
    THEN [ok |-> FALSE, val |-> ToInt64(0)]
    ELSE IF \/ 4 * (Len(s) - LeadIdx(s) + 1) > bitSize
            \/ /\ 4 * (Len(s) - LeadIdx(s) + 1) = bitSize
               /\ HexVal(s[LeadIdx(s)]) >= 8
    THEN [ok |-> FALSE, val |-> ToInt64(0)]
    ELSE [ok |-> TRUE, val |-> HexWords(s)]

\* ----------------------------------------------------------- UDP packets
\* A parse routine returns a packet and an error.  errors.New makes an error
\* that holds its message and nothing else.
NilError == [nil |-> TRUE, msg |-> ""]

NewError(msg) == [nil |-> FALSE, msg |-> msg]

errUDPInteger == NewError("errUDPInteger")

Parsed(packet, err) == [p |-> packet, err |-> err]

ZeroUDPPacket == [ConnID |-> <<0, 0, 0, 0>>, Action |-> <<0, 0>>, TransID |-> <<>>]

\* udpPacket.FromBytes: any slice expression that is out of range panics, and
\* the deferred function turns the panic into the zero packet and an error.
udpPacketFromBytes(buf) ==
    IF ~SliceOK(buf, 0, 8) \/ ~SliceOK(buf, 8, 12) \/ ~SliceOK(buf, 12, 16)
    THEN Parsed(ZeroUDPPacket, NewError("failed to create udpPacket from bytes"))
    ELSE Parsed([ConnID |-> BigEndianWords(Slice(buf, 0, 8)),
                 Action |-> BigEndianWords(Slice(buf, 8, 12)),
                 TransID |-> Slice(buf, 12, 16)],
                NilError)

ZeroUDPAnnouncePacket ==
    [InfoHash |-> <<>>, PeerID |-> <<>>, Downloaded |-> ToInt64(0),
     Left |-> ToInt64(0), Uploaded |-> ToInt64(0), Event |-> ToInt64(0),
     IP |-> ToInt64(0), Key |-> <<>>, Numwant |-> ToInt64(0), Port |-> ToInt64(0)]

\* The fields of an announce request in the order FromBytes reads them, each
\* with its byte range and how it is read.
AnnounceLayout ==
    <<[name |-> "InfoHash", lo |-> 16, hi |-> 36, read |-> "string", bits |-> 0],
      [name |-> "PeerID", lo |-> 36, hi |-> 56, read |-> "string", bits |-> 0],
      [name |-> "Downloaded", lo |-> 56, hi |-> 64, read |-> "int", bits |-> 64],
      [name |-> "Left", lo |-> 64, hi |-> 72, read |-> "int", bits |-> 64],
      [name |-> "Uploaded", lo |-> 72, hi |-> 80, read |-> "int", bits |-> 64],
      [name |-> "Event", lo |-> 80, hi |-> 84, read |-> "int", bits |-> 32],
      [name |-> "IP", lo |-> 84, hi |-> 88, read |-> "int", bits |-> 32],
      [name |-> "Key", lo |-> 88, hi |-> 92, read |-> "hex", bits |-> 0],
      [name |-> "Numwant", lo |-> 92, hi |-> 96, read |-> "numwant", bits |-> 32],
      [name |-> "Port", lo |-> 96, hi |-> 98, read |-> "int", bits |-> 32]>>

\* NumwantField without the default.
NumwantFieldAsGiven(hex) == ParseInt(hex, 32)

\* If numwant is hex max value, default to 50.
NumwantField(hex) ==
    IF hex = <<"f", "f", "f", "f", "f", "f", "f", "f">>
    THEN [ok |-> TRUE, val |-> ToInt64(50)]
    ELSE ParseInt(hex, 32)

\* Reads the fields from the i-th on into packet u.
RECURSIVE AnnounceFields(_, _, _)
AnnounceFields(buf, i, u) ==
    IF i > Len(AnnounceLayout) THEN Parsed(u, NilError)
    ELSE LET fld == AnnounceLayout[i]
             hex == HexEncodeToString(Slice(buf, fld.lo, fld.hi))
             t == IF fld.read = "numwant" THEN NumwantField(hex)
                  ELSE ParseInt(hex, fld.bits)
         IN  IF ~SliceOK(buf, fld.lo, fld.hi)
             THEN Parsed(ZeroUDPAnnouncePacket,
                         NewError("failed to create udpAnnouncePacket from bytes"))
             ELSE IF fld.read = "string"
             THEN AnnounceFields(buf, i + 1,
                                 [u EXCEPT ![fld.name] = Slice(buf, fld.lo, fld.hi)])
             ELSE IF fld.read = "hex"
             THEN AnnounceFields(buf, i + 1, [u EXCEPT ![fld.name] = hex])
             ELSE IF ~t.ok
             THEN Parsed(ZeroUDPAnnouncePacket, errUDPInteger)
             ELSE AnnounceFields(buf, i + 1, [u EXCEPT ![fld.name] = t.val])

udpAnnouncePacketFromBytes(buf) == AnnounceFields(buf, 1, ZeroUDPAnnouncePacket)

\* A compact peer: four bytes of IPv4 address and two bytes of port.
b2ip(b) == [IP |-> SubSeq(b, 1, 4), Port |-> 256 * b[5] + b[6]]

ip2b(peer) == peer.IP \o <<peer.Port \div 256, peer.Port % 256>>

\* The compact peer list: the peers' six bytes, one after the other.
CompactPeers(peers) ==
    [i \in 1..(6 * Len(peers)) |-> ip2b(peers[((i - 1) \div 6) + 1])[((i - 1) % 6) + 1]]

ZeroUDPAnnounceResponsePacket ==
    [Action |-> <<0, 0>>, TransID |-> <<>>, Interval |-> <<0, 0>>,
     Leechers |-> <<0, 0>>, Seeders |-> <<0, 0>>, PeerList |-> <<>>]

\* The peer loop of udpAnnounceResponsePacket.FromBytes, which starts at
\* offset i: round j reads buf[i+6j : i+6j+6].  The loop leaves at the first
\* round whose offset is not below the length, and panics at a round whose
\* slice is out of range.
ResponseRounds(buf, i) ==
    CHOOSE n \in 0..Cap(buf) :
        /\ \A j \in 0..(n - 1) : i + 6 * j < buf.len /\ SliceOK(buf, i + 6 * j, i + 6 * j + 6)
        /\ ~(i + 6 * n < buf.len /\ SliceOK(buf, i + 6 * n, i + 6 * n + 6))

ResponsePeers(buf, i) ==
    [ok |-> ~(i + 6 * ResponseRounds(buf, i) < buf.len),
     peers |-> [j \in 1..ResponseRounds(buf, i) |->
                  b2ip(Slice(buf, i + 6 * (j - 1), i + 6 * j))]]

udpAnnounceResponsePacketFromBytes(buf) ==
    IF \/ ~SliceOK(buf, 0, 4) \/ ~SliceOK(buf, 4, 8) \/ ~SliceOK(buf, 8, 12)
       \/ ~SliceOK(buf, 12, 16) \/ ~SliceOK(buf, 16, 20)
       \/ ~ResponsePeers(buf, 20).ok
    THEN Parsed(ZeroUDPAnnounceResponsePacket,
                NewError("failed to create udpAnnounceResponsePacket from bytes"))
    ELSE Parsed([Action |-> BigEndianWords(Slice(buf, 0, 4)),
                 TransID |-> Slice(buf, 4, 8),
                 Interval |-> BigEndianWords(Slice(buf, 8, 12)),
                 Leechers |-> BigEndianWords(Slice(buf, 12, 16)),
                 Seeders |-> BigEndianWords(Slice(buf, 16, 20)),
                 PeerList |-> ResponsePeers(buf, 20).peers],
                NilError)

\* udpTrackerAnnounce writes action 1, the transaction id, the interval, the
\* leechers, the seeders and the compact peer list.
udpAnnounceResponseBytesSeedersFirst(transID, interval, leechers, seeders, peerList) ==
    BigEndianBytes(ToUint32(1)) \o transID \o BigEndianBytes(interval)
        \o BigEndianBytes(seeders) \o BigEndianBytes(leechers) \o peerList

udpAnnounceResponseBytes(transID, interval, leechers, seeders, peerList) ==
    BigEndianBytes(ToUint32(1)) \o transID \o BigEndianBytes(interval)
        \o BigEndianBytes(leechers) \o BigEndianBytes(seeders) \o peerList

ZeroUDPScrapePacket == [InfoHashes |-> <<>>]

\* The loop of udpScrapePacket.FromBytes, which starts at offset i and runs
\* while the offset is below 16 + 70*20: round j tests buf[i+20j], which panics
\* when it is out of range, leaves the loop when that byte is zero, and
\* appends buf[i+20j : i+20j+20].
ScrapeAppends(buf, i, j) ==
    /\ i + 20 * j < 16 + (ScrapeMax * 20)
    /\ IndexOK(buf, i + 20 * j)
    /\ buf.bytes[i + 20 * j + 1] # 0
    /\ SliceOK(buf, i + 20 * j, i + 20 * j + 20)

ScrapeRounds(buf, i) ==
    CHOOSE n \in 0..ScrapeMax :
        /\ \A j \in 0..(n - 1) : ScrapeAppends(buf, i, j)
        /\ ~ScrapeAppends(buf, i, n)

ScrapeHashes(buf, i) ==
    LET n == ScrapeRounds(buf, i)
    IN  [ok |-> \/ ~(i + 20 * n < 16 + (ScrapeMax * 20))
                \/ IndexOK(buf, i + 20 * n) /\ buf.bytes[i + 20 * n + 1] = 0,
         hashes |-> [j \in 1..n |-> Slice(buf, i + 20 * (j - 1), i + 20 * j)]]

udpScrapePacketFromBytes(buf) ==
    IF ~ScrapeHashes(buf, 16).ok
    THEN Parsed(ZeroUDPScrapePacket,
                NewError("failed to create udpScrapePacket from bytes"))
    ELSE Parsed([InfoHashes |-> ScrapeHashes(buf, 16).hashes], NilError)

\* ------------------------------------------------------- swarm of a file
\* Seeders and leechers are computed from the peer table.
Seeders(f) ==
    Cardinality({r \in fileUsers : r.FileID = f.ID /\ r.Active /\ r.Left = 0})

Leechers(f) ==
    Cardinality({r \in fileUsers : r.FileID = f.ID /\ r.Active /\ r.Left > 0})

\* The addresses PeerList may return: the active peers of the file other than
\* the excluded address.
PeerCandidates(f, exclude) ==
    {r.IP : r \in {x \in fileUsers : x.FileID = f.ID /\ x.Active /\ x.IP # exclude}}

\* PeerList: up to numwant of the candidates, in no specified order.  The
\* lists PeerList may return, each as the set of its entries.
PeerList(f, exclude, numwant) ==
    {peers \in SUBSET PeerCandidates(f, exclude) :
        Cardinality(peers) =
            IF numwant < 0 THEN 0
            ELSE IF numwant < Cardinality(PeerCandidates(f, exclude)) THEN numwant
            ELSE Cardinality(PeerCandidates(f, exclude))}

\* randRange(min, max): the values it may return.
randRange(min, max) == min..max

\* --------------------------------------------------------------- responses
httpTrackerError(err) ==
    [kind |-> "httpError", action |-> 0, transID |-> 0, msg |-> err]

udpTrackerError(msg, transID) ==
    [kind |-> "udp", action |-> 3, transID |-> transID, msg |-> msg]

httpTrackerAnnounce(query, f, fu) ==
    [kind |-> "httpAnnounce", action |-> 0, transID |-> 0, msg |-> ""]

udpTrackerAnnounce(query, f, transID) ==
    IF ~Atoi(query.numwant).ok
    THEN udpTrackerError("Could not create UDP announce response", transID)
    ELSE [kind |-> "udp", action |-> 1, transID |-> transID, msg |-> ""]

httpTrackerScrape(query, f) ==
    [kind |-> "httpScrape", action |-> 0, transID |-> 0, msg |-> ""]

\* ---------------------------------------------------------- response bodies
\* What the announce responses carry.  Interval and peer selection are not
\* determined by the arguments, so each operator gives the values or bodies
\* the function may produce for its arguments and the store it reads.

\* HTTPNumwant that ignores the parameter.
HTTPNumwantDefault(query) == 50

\* Default is 50 per protocol; numwant is used when it is an integer.
HTTPNumwant(query) ==
    IF query.numwant # <<>> /\ Atoi(query.numwant).ok
    THEN Atoi(query.numwant).val
    ELSE 50

\* HTTPInterval with the two cases exchanged.
HTTPIntervalSwapped(fu) ==
    IF fu.Completed
    THEN [interval : randRange(300, 600), minInterval : {300}]
    ELSE [interval : randRange(Interval - 600, Interval),
          minInterval : {Interval \div 2}]

\* A client that has not completed the torrent announces more frequently.
HTTPInterval(fu) ==
    IF fu.Completed = FALSE
    THEN [interval : randRange(300, 600), minInterval : {300}]
    ELSE [interval : randRange(Interval - 600, Interval),
          minInterval : {Interval \div 2}]

httpAnnounceBody(query, f, fu) ==
    {[complete |-> Seeders(f), incomplete |-> Leechers(f),
      interval |-> i.interval, minInterval |-> i.minInterval, peers |-> peers] :
        i \in HTTPInterval(fu), peers \in PeerList(f, query.ip, HTTPNumwant(query))}

\* Empty when numwant is not an integer: the function then returns an error
\* packet instead.
udpAnnounceBody(query, f) ==
    IF ~Atoi(query.numwant).ok THEN {}
    ELSE {[interval |-> i, leechers |-> Leechers(f), seeders |-> Seeders(f),
           peers |-> peers] :
            i \in randRange(Interval - 600, Interval),
            peers \in PeerList(f, query.ip, Atoi(query.numwant).val)}

\* ------------------------------------------------------------ trackerAnnounce
\* NewFile without the info_hash.
NewFileNoHash(f, announce) == [f EXCEPT !.Verified = FALSE]

\* NewFile marked verified.
NewFileVerified(f, announce) ==
    [f EXCEPT !.InfoHash = announce.InfoHash, !.Verified = TRUE]

\* The entry made for an unknown hash, marked unverified.
NewFile(f, announce) ==
    [f EXCEPT !.InfoHash = announce.InfoHash, !.Verified = FALSE]

\* NewFileUser with the completion test of a pre-existing record.
NewFileUserByEvent(fu, f, user, query, announce) ==
    [fu EXCEPT
        !.FileID = f.ID,
        !.UserID = user,
        !.IP = query.ip,
        !.Active = TRUE,
        !.Announced = 1,
        !.Completed = (announce.Event = "completed" \/ announce.Left = 0),
        !.Uploaded = announce.Uploaded,
        !.Downloaded = announce.Downloaded,
        !.Left = announce.Left]

\* No record yet for this user, file and IP.
NewFileUser(fu, f, user, query, announce) ==
    [fu EXCEPT
        !.FileID = f.ID,
        !.UserID = user,
        !.IP = query.ip,
        !.Active = TRUE,
        !.Announced = 1,
        !.Completed = (announce.Left = 0),
        !.Uploaded = announce.Uploaded,
        !.Downloaded = announce.Downloaded,
        !.Left = announce.Left]

\* An update that leaves an inactive record inactive.
UpdateActiveKeep(fu, announce) == fu.Active /\ announce.Event # "stopped"

UpdateActive(fu, announce) == announce.Event # "stopped"

UpdateCompleted(fu, announce) ==
    announce.Event = "completed" \/ announce.Left = 0

UpdateUploaded(fu, announce) ==
    IF announce.Uploaded > fu.Uploaded THEN announce.Uploaded ELSE fu.Uploaded

UpdateDownloaded(fu, announce) ==
    IF announce.Downloaded > fu.Downloaded THEN announce.Downloaded ELSE fu.Downloaded

UpdateLeft(fu, announce) ==
    IF announce.Left < fu.Left THEN announce.Left ELSE fu.Left

\* A pre-existing record.
UpdateFileUser(fu, announce) ==
    [fu EXCEPT
        !.Active = UpdateActive(fu, announce),
        !.Completed = UpdateCompleted(fu, announce),
        !.Announced = fu.Announced + 1,
        !.Uploaded = UpdateUploaded(fu, announce),
        !.Downloaded = UpdateDownloaded(fu, announce),
        !.Left = UpdateLeft(fu, announce)]

\* The record trackerAnnounce hands to fileUser.Save().
MergeFileUser(fu, f, user, query, announce) ==
    IF fu = ZeroFileUser
    THEN NewFileUser(fu, f, user, query, announce)
    ELSE UpdateFileUser(fu, announce)

\* The handler of slot p returns: what it sent, what it started, its locals.
Return(p, msgs, started, f, ld, fu) ==
    /\ pc' = [pc EXCEPT ![p] = "done"]
    /\ res' = [res EXCEPT ![p] = msgs]
    /\ tasks' = [tasks EXCEPT ![p] = started]
    /\ file' = [file EXCEPT ![p] = f]
    /\ loaded' = [loaded EXCEPT ![p] = ld]
    /\ fileUser' = [fileUser EXCEPT ![p] = fu]
    /\ UNCHANGED <<files, fileUsers, connTable, now, static, printer, users, session>>

IsRegistered(f) == f # ZeroFile

IsVerifiedAlways(f) == TRUE

IsVerified(f) == f.Verified

\* AnnouncesAnonymously that sends every announce down the HTTP path.
AnnouncesAnonymouslyNever(announce) == FALSE

\* A UDP tracker cannot reliably detect the user, so it announces anonymously.
AnnouncesAnonymously(announce) == announce.UDP

trackerAnnounce(p, user, query, transID) ==
    LET announce == AnnounceFromMap(query)
        f == FileLoad(announce.InfoHash)
        ld == FileUserLoad(f.ID, user, query.ip)
    IN  IF announce = ZeroAnnounce
        THEN Return(p, <<httpTrackerError("Malformed announce")>>, {},
                    ZeroFile, ZeroFileUser, ZeroFileUser)
        ELSE IF ~IsRegistered(f)
        THEN Return(p,
                    <<IF ~announce.UDP
                      THEN httpTrackerError("Unregistered torrent")
                      ELSE udpTrackerError("Unregistered torrent", transID)>>,
                    {"log", "file"},
                    NewFile(f, announce), ZeroFileUser, ZeroFileUser)
        ELSE IF ~IsVerified(f)
        THEN Return(p,
                    <<IF ~announce.UDP
                      THEN httpTrackerError("Unverified torrent")
                      ELSE udpTrackerError("Unverified torrent", transID)>>,
                    {"log"}, f, ZeroFileUser, ZeroFileUser)
        ELSE IF AnnouncesAnonymously(announce)
        THEN Return(p, <<udpTrackerAnnounce(query, f, transID)>>,
                    {"log", "reaper"}, f, ZeroFileUser, ZeroFileUser)
        ELSE Return(p,
                    <<httpTrackerAnnounce(query, f,
                                          MergeFileUser(ld, f, user, query, announce))>>,
                    {"log", "reaper", "fileUser"},
                    f, ld, MergeFileUser(ld, f, user, query, announce))

\* -------------------------------------------------------------- trackerScrape
trackerScrape(p, user, query) ==
    LET f == IF query.wellFormed THEN FileLoad(query.info_hash) ELSE ZeroFile
    IN  IF ~query.wellFormed
        THEN Return(p, <<httpTrackerError("Malformed scrape")>>, {},
                    ZeroFile, ZeroFileUser, ZeroFileUser)
        ELSE IF ~IsRegistered(f)
        THEN Return(p, <<httpTrackerError("Unregistered torrent")>>, {"log"},
                    f, ZeroFileUser, ZeroFileUser)
        ELSE IF ~IsVerified(f)
        THEN Return(p, <<httpTrackerError("Unverified torrent")>>, {"log"},
                    f, ZeroFileUser, ZeroFileUser)
        ELSE Return(p, <<httpTrackerScrape(query, f)>>, {"log", "reaper"},
                    f, ZeroFileUser, ZeroFileUser)

\* ------------------------------------------------------- UDP connection ids
\* A connection id is valid for ConnTimeout seconds, for the address it was
\* issued to.
ConnTimeout == 120

\* ConnValid without the age test.
ConnValidAnyAge(connID, addr) ==
    /\ connTable[connID] # NoConn
    /\ connTable[connID].addr = addr

ConnValid(connID, addr) ==
    /\ connTable[connID] # NoConn
    /\ connTable[connID].addr = addr
    /\ now - connTable[connID].issued <= ConnTimeout

\* An announce datagram from addr: the connection id is checked, then the
\* announce is handed to trackerAnnounce without a user.
udpAnnounce(p, connID, addr, query, transID) ==
    IF ~ConnValid(connID, addr)
    THEN Return(p, <<udpTrackerError("invalid connection id", transID)>>, {},
                ZeroFile, ZeroFileUser, ZeroFileUser)
    ELSE trackerAnnounce(p, 0, query, transID)

\* ------------------------------------------------------------------ actions
\* Request r arrives in slot p and its handler runs.
Handle(p, r) ==
    /\ pc[p] = "idle"
    /\ req' = [req EXCEPT ![p] = r]
    /\ IF r.op = "announce"
       THEN trackerAnnounce(p, r.user, r.query, r.transID)
       ELSE IF r.op = "scrape"
       THEN trackerScrape(p, r.user, r.query)
       ELSE udpAnnounce(p, r.connID, r.addr, r.query, r.transID)

\* A connect transaction from addr: a fresh random connection id is bound to
\* the address and returned in the connect response.
UDPConnect ==
    \E addr \in Addrs, connID \in ConnIDs :
        /\ connTable' = [connTable EXCEPT ![connID] = [addr |-> addr, issued |-> now]]
        /\ UNCHANGED <<files, fileUsers, pc, req, file, loaded, fileUser, res, tasks, now,
                       static, printer, users, session>>

\* The table drops a binding older than the validity window.
UDPEvict ==
    \E connID \in ConnIDs :
        /\ connTable[connID] # NoConn
        /\ now - connTable[connID].issued > ConnTimeout
        /\ connTable' = [connTable EXCEPT ![connID] = NoConn]
        /\ UNCHANGED <<files, fileUsers, pc, req, file, loaded, fileUser, res, tasks, now,
                       static, printer, users, session>>

Tick ==
    /\ now + TickStep <= MaxTime
    /\ now' = now + TickStep
    /\ UNCHANGED <<files, fileUsers, pc, req, file, loaded, fileUser, res, tasks, connTable,
                   static, printer, users, session>>

Finish(p, task) ==
    /\ task \in tasks[p]
    /\ tasks' = [tasks EXCEPT ![p] = @ \ {task}]
    /\ UNCHANGED <<pc, req, file, loaded, fileUser, res, connTable, now, static, printer, users, session>>

\* A dispatched announceLog/scrapeLog Save() completes.
LogSave ==
    \E p \in Slots : Finish(p, "log") /\ UNCHANGED <<files, fileUsers>>

\* A dispatched fileRecord Save() reaches the store.
FileSave ==
    \E p \in Slots :
        /\ Finish(p, "file")
        /\ files' = FileSaveRows(files, file[p])
        /\ UNCHANGED fileUsers

\* A dispatched fileUserRecord Save() reaches the store.
FileUserSave ==
    \E p \in Slots :
        /\ Finish(p, "fileUser")
        /\ fileUsers' = FileUserSaveRows(fileUsers, fileUser[p])
        /\ UNCHANGED files

\* The pass of a running reaper: the active records of the file whose last
\* announce is older than the threshold are marked inactive, and the task
\* ends.  Time is not tracked here, so any of the file's active records may
\* have gone stale.
PeerReaper ==
    \E p \in Slots :
        \E stale \in SUBSET {r \in fileUsers : r.FileID = file[p].ID /\ r.Active} :
            /\ Finish(p, "reaper")
            /\ fileUsers' = (fileUsers \ stale) \cup
                            {[r EXCEPT !.Active = FALSE] : r \in stale}
            /\ UNCHANGED files

\* ------------------------------------------------------------- user records
\* UserRecord{}: what new(UserRecord) holds and what Load returns when no row
\* matches.
ZeroUserRecord ==
    [ID |-> 0, Username |-> <<>>, Passkey |-> <<>>, TorrentLimit |-> 0,
     Uploaded |-> 0, Downloaded |-> 0]

\* The users table: rows, and the next value of the auto-increment id.
UsersWith(rows) == [rows |-> rows, nextID |-> Cardinality(rows) + 1]

NoUsers == UsersWith({})

NewSession == [pc |-> "new", user |-> ZeroUserRecord, user2 |-> ZeroUserRecord, ok |-> FALSE]

\* A generated passkey one character too long.
PasskeyLong(seed) == [i \in 1..(PasskeyLen + 1) |-> HexChars[((seed * i) % 16) + 1]]

\* The passkey generated at creation: 40 lowercase hexadecimal characters,
\* different for different seeds.
Passkey(seed) == [i \in 1..PasskeyLen |-> HexChars[((seed * i) % 16) + 1]]

\* What a column of n characters keeps of a string.
Column(s, n) == IF Len(s) <= n THEN s ELSE SubSeq(s, 1, n)

\* UserRecord.Create(username, torrentLimit)
Create(username, torrentLimit, seed) ==
    [ZeroUserRecord EXCEPT !.Username = username,
                           !.Passkey = Passkey(seed),
                           !.TorrentLimit = torrentLimit]

\* The row that Save stores for a record.
UserRow(user, id) ==
    [user EXCEPT !.ID = id,
                 !.Username = Column(user.Username, UsernameLen),
                 !.Passkey = Column(user.Passkey, PasskeyLen)]

\* The unique keys of the table reject a row whose username or passkey another
\* row holds.
Conflicts(rows, row) ==
    \E other \in rows :
        /\ other.ID # row.ID
        /\ (other.Username = row.Username \/ other.Passkey = row.Passkey)

\* A load that returns some row of the table, whatever was asked for.
LoadAny(rows, value, column) ==
    IF rows = {} THEN ZeroUserRecord ELSE CHOOSE row \in rows : TRUE

\* UserRecord.Load(value, column): the row whose column holds the value, or
\* UserRecord{}.
Load(rows, value, column) ==
    IF \E row \in rows : row[column] = value
    THEN CHOOSE row \in rows : row[column] = value
    ELSE ZeroUserRecord

Usernames == {<<"t", "e", "s", "t">>, <<"a", "l", "i", "c", "e">>}

TorrentLimits == {10, 100}

Seeds == 1..MaxSeed

\* new(UserRecord); user.Create(username, limit)
UserCreate ==
    /\ session.pc = "new"
    /\ \E username \in Usernames, torrentLimit \in TorrentLimits, seed \in Seeds :
          session' = [pc |-> "created", user |-> Create(username, torrentLimit, seed),
                      user2 |-> ZeroUserRecord, ok |-> TRUE]
    /\ UNCHANGED users
    /\ UNCHANGED trackerVars

\* user.Save(): inserts the record as a new row; false, and no row, when a
\* unique key rejects it.
UserSave ==
    /\ session.pc = "created"
    /\ users.nextID <= MaxUserID
    /\ LET row == UserRow(session.user, users.nextID) IN
         IF Conflicts(users.rows, row)
         THEN /\ session' = [session EXCEPT !.pc = "failed", !.ok = FALSE]
              /\ UNCHANGED users
         ELSE /\ session' = [session EXCEPT !.pc = "saved", !.ok = TRUE]
              /\ users' = [rows |-> users.rows \cup {row}, nextID |-> users.nextID + 1]
    /\ UNCHANGED trackerVars

\* user2 := user.Load(username, "username")
UserLoad ==
    /\ session.pc = "saved"
    /\ session' = [session EXCEPT
                      !.pc = "loaded",
                      !.user2 = Load(users.rows, session.user.Username, "Username")]
    /\ UNCHANGED users
    /\ UNCHANGED trackerVars

\* user2.Delete(): deletes the row of the record's id; true when the row was
\* there.
UserDelete ==
    /\ session.pc = "loaded"
    /\ LET gone == {row \in users.rows : row.ID = session.user2.ID} IN
         /\ session' = [session EXCEPT !.pc = "deleted", !.ok = (gone # {})]
         /\ users' = [users EXCEPT !.rows = @ \ gone]
    /\ UNCHANGED trackerVars

\* The administrator turns to another user record.
UserNext ==
    /\ session.pc \in {"failed", "deleted", "saved"}
    /\ session' = NewSession
    /\ UNCHANGED users
    /\ UNCHANGED trackerVars

\* ------------------------------------------------------------------ status
\* The counters of one protocol, and the singleton at startup.
ZeroStats == [Current |-> 0, Total |-> 0]

StaticWith(config) == [Config |-> config, HTTP |-> ZeroStats, UDP |-> ZeroStats]

\* serverStatus{}: what getServerStatus returns when the hostname cannot be
\* read.  Of the host's description (pid, hostname, platform, ...) only
\* whether it was filled in is kept.
ZeroServerStatus == [host |-> FALSE, HTTP |-> ZeroStats, UDP |-> ZeroStats]

\* getServerStatus, its four atomic loads taken together.
getServerStatus(hostnameErr) ==
    IF hostnameErr THEN ZeroServerStatus
    ELSE [host |-> TRUE, HTTP |-> static.HTTP, UDP |-> static.UDP]

NilBytes == [kind |-> "nil"]

\* json.Marshal of a server status.
StatusJSON(status) == [kind |-> "status", body |-> status]

\* getStatusJSON: when json.Marshal fails, nil is sent, and then res (which is
\* nil) is sent as well.
getStatusJSON(p) ==
    \E hostnameErr \in BOOLEAN, marshalErr \in BOOLEAN :
        /\ pc[p] = "idle"
        /\ req' = [req EXCEPT ![p] = [op |-> "status"]]
        /\ Return(p,
                  IF marshalErr THEN <<NilBytes, NilBytes>>
                  ELSE <<StatusJSON(getServerStatus(hostnameErr))>>,
                  {}, ZeroFile, ZeroFileUser, ZeroFileUser)

GetStatus == \E p \in Slots : getStatusJSON(p)

\* A request is accepted by the listener of a protocol that is enabled: its
\* current and total counters are incremented.
Accept(proto) ==
    /\ static.Config[proto]
    /\ static[proto].Total < MaxAccepts
    /\ static' = [static EXCEPT ![proto] = [Current |-> @.Current + 1,
                                            Total |-> @.Total + 1]]
    /\ UNCHANGED printer
    /\ UNCHANGED engineVars

AcceptHTTP == Accept("HTTP")

AcceptUDP == Accept("UDP")

\* A reset that clears the total as well.
StoreZeroAll(stats) == [Current |-> 0, Total |-> 0]

\* atomic.StoreInt64(&stats.Current, 0)
StoreZero(stats) == [stats EXCEPT !.Current = 0]

\* printCurrentStatus before its first call.  reported holds, per protocol,
\* the sum of the current values its log lines have reported so far.
IdlePrinter ==
    [pc |-> "idle", stat |-> ZeroServerStatus, log |-> <<>>,
     reported |-> [HTTP |-> 0, UDP |-> 0]]

\* printCurrentStatus is called: getServerStatus reads the hostname, and
\* returns serverStatus{} when that fails, upon which printCurrentStatus logs
\* that and returns.
PrintBegin ==
    /\ printer.pc = "idle"
    /\ \E hostnameErr \in BOOLEAN :
          printer' =
            IF hostnameErr
            THEN [printer EXCEPT
                    !.pc = "idle", !.stat = ZeroServerStatus,
                    !.log = <<[line |-> "Could not print current status"]>>]
            ELSE [printer EXCEPT
                    !.pc = "loadHTTPCurrent",
                    !.stat = [ZeroServerStatus EXCEPT !.host = TRUE],
                    !.log = <<>>]
    /\ UNCHANGED static
    /\ UNCHANGED engineVars

\* The atomic loads of getServerStatus, one at a time.
PrintLoad ==
    /\ printer.pc \in {"loadHTTPCurrent", "loadHTTPTotal", "loadUDPCurrent", "loadUDPTotal"}
    /\ printer' =
         CASE printer.pc = "loadHTTPCurrent" ->
                [printer EXCEPT !.pc = "loadHTTPTotal",
                                !.stat.HTTP.Current = static.HTTP.Current]
           [] printer.pc = "loadHTTPTotal" ->
                [printer EXCEPT !.pc = "loadUDPCurrent",
                                !.stat.HTTP.Total = static.HTTP.Total]
           [] printer.pc = "loadUDPCurrent" ->
                [printer EXCEPT !.pc = "loadUDPTotal",
                                !.stat.UDP.Current = static.UDP.Current]
           [] OTHER ->
                [printer EXCEPT !.pc = "http",
                                !.stat.UDP.Total = static.UDP.Total]
    /\ UNCHANGED static
    /\ UNCHANGED engineVars

\* HTTP stats: logged and the current HTTP counter reset, if HTTP is enabled.
PrintHTTP ==
    /\ printer.pc = "http"
    /\ IF static.Config.HTTP
       THEN /\ printer' = [printer EXCEPT
                               !.pc = "udp",
                               !.reported.HTTP = @ + printer.stat.HTTP.Current,
                               !.log = Append(@, [line |-> "http",
                                                  current |-> printer.stat.HTTP.Current,
                                                  total |-> printer.stat.HTTP.Total])]
            /\ static' = [static EXCEPT !.HTTP = StoreZero(@)]
       ELSE /\ printer' = [printer EXCEPT !.pc = "udp"]
            /\ UNCHANGED static
    /\ UNCHANGED engineVars

\* UDP stats: logged and the current UDP counter reset, if UDP is enabled.
PrintUDP ==
    /\ printer.pc = "udp"
    /\ IF static.Config.UDP
       THEN /\ printer' = [printer EXCEPT
                               !.pc = "idle",
                               !.reported.UDP = @ + printer.stat.UDP.Current,
                               !.log = Append(@, [line |-> "udp",
                                                  current |-> printer.stat.UDP.Current,
                                                  total |-> printer.stat.UDP.Total])]
            /\ static' = [static EXCEPT !.UDP = StoreZero(@)]
       ELSE /\ printer' = [printer EXCEPT !.pc = "idle"]
            /\ UNCHANGED static
    /\ UNCHANGED engineVars

\* ------------------------------------------------------------ specifications
\* The store a run starts from: the verified torrent h1, the unverified h3,
\* and no record or the record a first announce of user 1 from ip1 left behind.
PriorStores ==
    {{}} \cup
    {{NewFileUser(ZeroFileUser, [ID |-> 1, InfoHash |-> "h1", Verified |-> TRUE], 1,
                  AnnounceQuery(FALSE, "h1", "ip1", "started", report),
                  AnnounceFromMap(AnnounceQuery(FALSE, "h1", "ip1", "started", report)))} :
        report \in Reports}

InitWith(stores) ==
    /\ files = {[ID |-> 1, InfoHash |-> "h1", Verified |-> TRUE],
                [ID |-> 2, InfoHash |-> "h3", Verified |-> FALSE]}
    /\ fileUsers \in stores
    /\ pc = [p \in Slots |-> "idle"]
    /\ req = [p \in Slots |-> NoReq]
    /\ file = [p \in Slots |-> ZeroFile]
    /\ loaded = [p \in Slots |-> ZeroFileUser]
    /\ fileUser = [p \in Slots |-> ZeroFileUser]
    /\ res = [p \in Slots |-> <<>>]
    /\ tasks = [p \in Slots |-> {}]
    /\ connTable = [c \in ConnIDs |-> NoConn]
    /\ now = 0
    /\ static = StaticWith([HTTP |-> TRUE, UDP |-> TRUE])
    /\ printer = IdlePrinter
    /\ users = NoUsers
    /\ session = NewSession

\* HTTP announces of the verified torrent.
SwarmRequests ==
    {AnnounceReq(user, AnnounceQuery(FALSE, "h1", ip, event, report), 0) :
        user \in UserIDs, ip \in IPs, event \in Events, report \in Reports}

SwarmAnnounce == \E p \in Slots, r \in SwarmRequests : Handle(p, r)

InitSwarm == InitWith(PriorStores)

NextSwarm ==
    \/ SwarmAnnounce
    \/ LogSave
    \/ FileUserSave
    \/ PeerReaper

SpecSwarm == InitSwarm /\ [][NextSwarm]_vars

\* Requests that stop at the gate or pass it without a user: malformed
\* queries, announces of the unknown and of the unverified torrent, UDP
\* announces and scrapes of every torrent.  UDP requests carry no user.
GateReport == [uploaded |-> 0, downloaded |-> 0, left |-> MaxVal]

GateRequests ==
    {AnnounceReq(1, MalformedQuery, 0), ScrapeReq(1, MalformedQuery)}
    \cup {AnnounceReq(user, AnnounceQuery(FALSE, hash, ip, event, GateReport), 0) :
            user \in UserIDs, hash \in {"h2", "h3"}, ip \in IPs, event \in Events}
    \cup {AnnounceReq(0, AnnounceQuery(TRUE, hash, ip, event, GateReport), transID) :
            hash \in Hashes, ip \in IPs, event \in Events, transID \in TransIDs}
    \cup {ScrapeReq(user, ScrapeQuery(hash, ip)) :
            user \in UserIDs, hash \in Hashes, ip \in IPs}

GateRequest == \E p \in Slots, r \in GateRequests : Handle(p, r)

InitGate == InitWith({{}})

NextGate ==
    \/ GateRequest
    \/ LogSave
    \/ FileSave
    \/ PeerReaper

SpecGate == InitGate /\ [][NextGate]_vars

\* Announce datagrams for the verified torrent, with any connection id from
\* any address.
UDPAnnounceReq(connID, addr, query, transID) ==
    [op |-> "udpAnnounce", user |-> 0, query |-> query, transID |-> transID,
     connID |-> connID, addr |-> addr]

Datagrams ==
    {UDPAnnounceReq(connID, addr, AnnounceQuery(TRUE, "h1", "ip1", "", GateReport), transID) :
        connID \in ConnIDs, addr \in Addrs, transID \in TransIDs}

UDPRequest == \E p \in Slots, r \in Datagrams : Handle(p, r)

NextUDP ==
    \/ UDPConnect
    \/ UDPEvict
    \/ Tick
    \/ UDPRequest
    \/ LogSave
    \/ PeerReaper

SpecUDP == InitGate /\ [][NextUDP]_vars

\* UDP announces of every torrent, over a store that may hold a record.
AnonRequests ==
    {AnnounceReq(0, AnnounceQuery(TRUE, hash, ip, event, GateReport), transID) :
        hash \in Hashes, ip \in IPs, event \in Events, transID \in TransIDs}

AnonAnnounce == \E p \in Slots, r \in AnonRequests : Handle(p, r)

NextAnon ==
    \/ AnonAnnounce
    \/ LogSave
    \/ FileSave
    \/ PeerReaper

SpecAnon == InitSwarm /\ [][NextAnon]_vars

\* A swarm of h1: a leecher at ip1, a seeder at ip2, a leecher at ip3, a peer
\* at ip4 that has gone inactive, and a seeder of another file at ip5.
PeerRecord(fileID, userID, ip, active, left) ==
    [ZeroFileUser EXCEPT !.FileID = fileID, !.UserID = userID, !.IP = ip,
                         !.Active = active, !.Completed = (left = 0),
                         !.Announced = 1, !.Left = left]

PeerStore ==
    {PeerRecord(1, 1, "ip1", TRUE, MaxVal), PeerRecord(1, 2, "ip2", TRUE, 0),
     PeerRecord(1, 3, "ip3", TRUE, MaxVal), PeerRecord(1, 4, "ip4", FALSE, MaxVal),
     PeerRecord(2, 5, "ip5", TRUE, 0)}

\* numwant as a client may send it: absent, not a number, or a number.
Numwants == {<<>>, <<"x">>, <<"0">>, <<"1">>, <<"2">>}

\* Announces of h1 over HTTP by user 1 from ip1, one of them reporting the
\* download complete, and over UDP from ip2.
PeerRequests ==
    {AnnounceReq(1, NumwantQuery(FALSE, "h1", "ip1", event, GateReport, numwant), 0) :
        event \in {"", "stopped"}, numwant \in Numwants}
    \cup {AnnounceReq(1, NumwantQuery(FALSE, "h1", "ip1", "completed",
                                      [uploaded |-> 0, downloaded |-> MaxVal, left |-> 0],
                                      <<>>), 0)}
    \cup {AnnounceReq(0, NumwantQuery(TRUE, "h1", "ip2", "", GateReport, numwant), 1) :
            numwant \in {<<"x">>, <<"2">>, <<"5", "0">>}}

PeerAnnounce == \E p \in Slots, r \in PeerRequests : Handle(p, r)

InitPeers == InitWith({PeerStore})

NextPeers ==
    \/ PeerAnnounce
    \/ LogSave
    \/ FileUserSave
    \/ PeerReaper

SpecPeers == InitPeers /\ [][NextPeers]_vars

\* The packet codec and the numwant parameter, applied to byte buffers and
\* strings.  A slot holds one application: its arguments in req, what it
\* returned in res.
Fill(n, b) == [i \in 1..n |-> b]

Ramp(n, k) == [i \in 1..n |-> (k + i) % 256]

\* A buffer whose capacity is its length, and one with room to spare.
Exact(bytes) == Buf(Len(bytes), bytes)

Spare(len, bytes) == Buf(len, bytes)

Header == Ramp(16, 0)

PacketBufs ==
    {Exact(<<>>), Exact(Ramp(15, 0)), Exact(Header), Exact(Ramp(20, 100)),
     Exact(Fill(16, 255)), Spare(8, Header)}

\* An announce request with the given ip and numwant fields.
AnnounceBytes(ip, numwant) ==
    Header \o Fill(20, 170) \o Fill(20, 187)
        \o <<0, 0, 0, 0, 0, 0, 4, 0>> \o <<0, 0, 0, 0, 0, 1, 0, 0>>
        \o <<0, 0, 0, 0, 0, 0, 0, 7>> \o <<0, 0, 0, 2>> \o ip
        \o <<222, 173, 190, 239>> \o numwant \o <<26, 225>>

NumwantFields ==
    {<<255, 255, 255, 255>>, <<0, 0, 0, 0>>, <<0, 0, 0, 50>>, <<0, 0, 1, 44>>,
     <<127, 255, 255, 255>>, <<128, 0, 0, 0>>, <<255, 255, 255, 254>>}

\* Announce requests of 100 bytes: one with every integer field below its top
\* bit, and ones with the top bit set in downloaded, in left, in uploaded, in
\* event, in the IP address (192.168.0.1) and in the port.
TopBitBufs ==
    {Exact([i \in 1..100 |->
              IF i <= 98
              THEN IF i = top THEN 192
                   ELSE AnnounceBytes(<<10, 168, 0, 1>>, <<0, 0, 0, 50>>)[i]
              ELSE 0]) :
        top \in {0, 57, 65, 73, 81, 85, 97}}

AnnounceBufs ==
    {Exact(AnnounceBytes(ip, numwant)) :
        ip \in {<<0, 0, 0, 0>>, <<127, 0, 0, 1>>}, numwant \in NumwantFields}
    \cup {Exact(SubSeq(AnnounceBytes(<<0, 0, 0, 0>>, <<0, 0, 0, 50>>), 1, n)) :
            n \in {0, 20, 60, 97}}
    \cup {Spare(60, AnnounceBytes(<<0, 0, 0, 0>>, <<0, 0, 0, 50>>))}
    \cup TopBitBufs

Peer1 == [IP |-> <<10, 0, 0, 1>>, Port |-> 6881]

Peer2 == [IP |-> <<255, 255, 255, 255>>, Port |-> 65535]

PeerLists == {<<>>, <<Peer1>>, <<Peer1, Peer2>>, <<Peer2, Peer1>>}

TransIDBytes == {<<0, 0, 0, 1>>, <<255, 255, 255, 255>>}

Uint32s == {<<0, 0>>, <<0, 3600>>, <<32768, 0>>, <<65535, 65535>>}

\* Leechers and seeders.
Counts == {<<(<<0, 0>>), (<<0, 1>>)>>, <<(<<0, 2>>), (<<0, 0>>)>>,
           <<(<<65535, 65535>>), (<<32768, 1>>)>>}

ResponseBufs ==
    {Exact(Ramp(n, 7)) : n \in {0, 19, 20, 23, 26}}
    \cup {Spare(23, Ramp(26, 7)), Spare(12, Ramp(26, 7))}

\* K info-hashes, the j-th made of bytes j.
HashList(k) == [j \in 1..k |-> Fill(20, j)]

\* The 20-byte hashes, one after the other.
Concat(hashes) ==
    [i \in 1..(20 * Len(hashes)) |-> hashes[((i - 1) \div 20) + 1][((i - 1) % 20) + 1]]

HashLists ==
    {HashList(k) : k \in {1, 2, ScrapeMax - 1, ScrapeMax, ScrapeMax + 1}}
    \cup {<<Fill(20, 1), <<0>> \o Fill(19, 9), Fill(20, 3)>>}

\* A scrape request of the hashes, followed by pad zero bytes.
ScrapeBuf(hashes, pad) == Exact(Header \o Concat(hashes) \o Fill(pad, 0))

NumwantParams == {<<>>, <<"x">>, <<"0">>, <<"1", "0">>, <<"5", "0">>, <<"-", "1">>}

\* Slot p applies a routine to its arguments.
Apply(p, call, result) ==
    /\ pc[p] = "idle"
    /\ req' = [req EXCEPT ![p] = call]
    /\ Return(p, <<result>>, {}, ZeroFile, ZeroFileUser, ZeroFileUser)

ParsePacket ==
    \E p \in Slots, buf \in PacketBufs :
        Apply(p, [op |-> "udpPacket.FromBytes", buf |-> buf], udpPacketFromBytes(buf))

ParseAnnounce ==
    \E p \in Slots, buf \in AnnounceBufs :
        Apply(p, [op |-> "udpAnnouncePacket.FromBytes", buf |-> buf],
              udpAnnouncePacketFromBytes(buf))

ParseResponse ==
    \E p \in Slots, buf \in ResponseBufs :
        Apply(p, [op |-> "udpAnnounceResponsePacket.FromBytes", buf |-> buf],
              udpAnnounceResponsePacketFromBytes(buf))

ParseScrape ==
    \E p \in Slots, hashes \in HashLists, pad \in {0, 20} :
        Apply(p, [op |-> "udpScrapePacket.FromBytes", buf |-> ScrapeBuf(hashes, pad),
                  hashes |-> hashes, pad |-> pad],
              udpScrapePacketFromBytes(ScrapeBuf(hashes, pad)))

\* The bytes of an announce response are written and read back.
EncodeResponse ==
    \E p \in Slots, transID \in TransIDBytes, interval \in Uint32s,
       count \in Counts, peers \in PeerLists :
        Apply(p, [op |-> "udpTrackerAnnounce", transID |-> transID,
                  interval |-> interval, leechers |-> count[1],
                  seeders |-> count[2], peers |-> peers],
              udpAnnounceResponsePacketFromBytes(
                  Exact(udpAnnounceResponseBytes(transID, interval, count[1], count[2],
                                                 CompactPeers(peers)))))

HTTPNumwantOf ==
    \E p \in Slots, numwant \in NumwantParams :
        Apply(p, [op |-> "numwant",
                  query |-> NumwantQuery(FALSE, "h1", "ip1", "", GateReport, numwant)],
              HTTPNumwant(NumwantQuery(FALSE, "h1", "ip1", "", GateReport, numwant)))

NextCodec ==
    \/ ParsePacket
    \/ ParseAnnounce
    \/ ParseResponse
    \/ ParseScrape
    \/ EncodeResponse
    \/ HTTPNumwantOf

SpecCodec == InitGate /\ [][NextCodec]_vars

\* The counters, the status printer and status requests, for every
\* configuration of the two protocols.
InitStatus ==
    /\ files = {}
    /\ fileUsers = {}
    /\ pc = [p \in Slots |-> "idle"]
    /\ req = [p \in Slots |-> NoReq]
    /\ file = [p \in Slots |-> ZeroFile]
    /\ loaded = [p \in Slots |-> ZeroFileUser]
    /\ fileUser = [p \in Slots |-> ZeroFileUser]
    /\ res = [p \in Slots |-> <<>>]
    /\ tasks = [p \in Slots |-> {}]
    /\ connTable = [c \in ConnIDs |-> NoConn]
    /\ now = 0
    /\ \E config \in [HTTP : BOOLEAN, UDP : BOOLEAN] : static = StaticWith(config)
    /\ printer = IdlePrinter
    /\ users = NoUsers
    /\ session = NewSession

NextStatus ==
    \/ AcceptHTTP
    \/ AcceptUDP
    \/ PrintBegin
    \/ PrintLoad
    \/ PrintHTTP
    \/ PrintUDP
    \/ GetStatus

SpecStatus == InitStatus /\ [][NextStatus]_vars

\* Invocations of the three engines on an empty store: the announces and
\* scrapes that stop at each gate, HTTP announces that pass them all, and
\* status requests.  An invocation that has been started runs; nothing is
\* assumed of the asynchronous saves and reaper passes.
ReplyRequests ==
    GateRequests
    \cup {AnnounceReq(1, AnnounceQuery(FALSE, "h1", "ip1", event, GateReport), 0) :
            event \in Events}

Invoke(p) == \E r \in ReplyRequests : Handle(p, r)

ReplyRequest == \E p \in Slots : Invoke(p)

NextReply ==
    \/ ReplyRequest
    \/ GetStatus
    \/ LogSave
    \/ FileSave
    \/ FileUserSave
    \/ PeerReaper

SpecReply ==
    /\ InitGate
    /\ [][NextReply]_vars
    /\ \A p \in Slots : WF_vars(Invoke(p) \/ getStatusJSON(p))

\* The life cycle of user records on a users table that holds other users
\* already.
PriorUsers ==
    {UserRow(Create(<<"t", "e", "s", "t">>, 10, 2), 1),
     UserRow(Create(<<"b", "o", "b">>, 100, 3), 2)}

InitUsers ==
    /\ files = {}
    /\ fileUsers = {}
    /\ pc = [p \in Slots |-> "idle"]
    /\ req = [p \in Slots |-> NoReq]
    /\ file = [p \in Slots |-> ZeroFile]
    /\ loaded = [p \in Slots |-> ZeroFileUser]
    /\ fileUser = [p \in Slots |-> ZeroFileUser]
    /\ res = [p \in Slots |-> <<>>]
    /\ tasks = [p \in Slots |-> {}]
    /\ connTable = [c \in ConnIDs |-> NoConn]
    /\ now = 0
    /\ static = StaticWith([HTTP |-> TRUE, UDP |-> TRUE])
    /\ printer = IdlePrinter
    /\ \E rows \in SUBSET PriorUsers :
          users = [rows |-> rows, nextID |-> Cardinality(PriorUsers) + 1]
    /\ session = NewSession

NextUsers ==
    \/ UserCreate
    \/ UserSave
    \/ UserLoad
    \/ UserDelete
    \/ UserNext

SpecUsers == InitUsers /\ [][NextUsers]_vars

\* ------------------------------------------------------------------ claims
IsAnnounce(r) == r.op = "announce" /\ r.query.wellFormed

IsHTTPAnnounce(r) == IsAnnounce(r) /\ ~r.query.udp

IsUDPAnnounce(r) == IsAnnounce(r) /\ r.query.udp

\* The handler of slot p runs in this step.
Handled(p) == pc[p] = "idle" /\ pc'[p] = "done"

\* Slot p made or updated a files_users record.
Recorded(p) == pc[p] = "done" /\ fileUser[p] # ZeroFileUser

Max2(a, b) == IF a >= b THEN a ELSE b

Min2(a, b) == IF a <= b THEN a ELSE b

\* C1: from one commit to the next the stored uploaded and downloaded of a
\* record never decrease and its stored left never increases.
C1_StoredStatsMonotone ==
    [][\A r \in fileUsers : \A s \in fileUsers' :
          SameTriple(r, s) =>
              /\ s.Uploaded >= r.Uploaded
              /\ s.Downloaded >= r.Downloaded
              /\ s.Left <= r.Left]_vars

\* C2: the completed flag an announce leaves on an existing record is
\* prior.completed OR event = "completed" OR left = 0, so a record once
\* completed stays completed.
C2_CompletedSticky ==
    \A p \in Slots :
        (Recorded(p) /\ loaded[p] # ZeroFileUser) =>
            fileUser[p].Completed =
                (\/ loaded[p].Completed
                 \/ req[p].query.event = "completed"
                 \/ req[p].query.left = 0)

\* C3: once the saves of two announces of one triple have both been applied,
\* the stored record holds the maximum uploaded and downloaded and the minimum
\* left over the prior record and both reports.
C3_NoLostUpdate ==
    \A p, q \in Slots :
        (/\ p # q
         /\ Recorded(p) /\ Recorded(q)
         /\ SameTriple(fileUser[p], fileUser[q])
         /\ loaded[p] # ZeroFileUser /\ loaded[q] # ZeroFileUser
         /\ \A o \in Slots : "fileUser" \in tasks[o] => ~SameTriple(fileUser[o], fileUser[p])
         /\ \A o \in Slots \ {p, q} : ~(Recorded(o) /\ SameTriple(fileUser[o], fileUser[p])))
        => LET stored == FileUserLoad(fileUser[p].FileID, fileUser[p].UserID, fileUser[p].IP)
           IN  /\ stored.Uploaded =
                    Max2(Max2(loaded[p].Uploaded, loaded[q].Uploaded),
                         Max2(req[p].query.uploaded, req[q].query.uploaded))
               /\ stored.Downloaded =
                    Max2(Max2(loaded[p].Downloaded, loaded[q].Downloaded),
                         Max2(req[p].query.downloaded, req[q].query.downloaded))
               /\ stored.Left =
                    Min2(Min2(loaded[p].Left, loaded[q].Left),
                         Min2(req[p].query.left, req[q].query.left))

\* C9: an HTTP announce with event "stopped" that finds no record of its
\* triple creates the record with active = false.
C9_StoppedFreshInactive ==
    \A p \in Slots :
        (/\ Recorded(p)
         /\ loaded[p] = ZeroFileUser
         /\ req[p].query.event = "stopped")
        => ~fileUser[p].Active

\* C10: an HTTP announce of a verified file that finds no record of its triple
\* hands to Save a record of that triple with announced = 1, the reported
\* uploaded, downloaded and left, and completed exactly when the reported left
\* is 0; the save, once applied, stores that record.
C10_FreshRecord ==
    [][\A p \in Slots :
          /\ (/\ Handled(p)
              /\ IsHTTPAnnounce(req'[p])
              /\ IsVerified(FileLoad(req'[p].query.info_hash))
              /\ FileUserLoad(FileLoad(req'[p].query.info_hash).ID,
                              req'[p].user, req'[p].query.ip) = ZeroFileUser)
             => /\ "fileUser" \in tasks'[p]
                /\ fileUser'[p].FileID = FileLoad(req'[p].query.info_hash).ID
                /\ fileUser'[p].UserID = req'[p].user
                /\ fileUser'[p].IP = req'[p].query.ip
                /\ fileUser'[p].Announced = 1
                /\ fileUser'[p].Uploaded = req'[p].query.uploaded
                /\ fileUser'[p].Downloaded = req'[p].query.downloaded
                /\ fileUser'[p].Left = req'[p].query.left
                /\ fileUser'[p].Completed = (req'[p].query.left = 0)
          /\ ("fileUser" \in tasks[p] /\ "fileUser" \notin tasks'[p])
             => fileUser[p] \in fileUsers']_vars

\* A fresh record was made by an announce that reported left > 0 with event
\* "completed", and by one that reported left = 0, and was stored.
C10_Witness ==
    \E p, q \in Slots :
        /\ Recorded(p) /\ loaded[p] = ZeroFileUser
        /\ req[p].query.event = "completed" /\ req[p].query.left > 0
        /\ ~fileUser[p].Completed /\ fileUser[p] \in fileUsers
        /\ Recorded(q) /\ loaded[q] = ZeroFileUser
        /\ req[q].query.left = 0 /\ fileUser[q].Completed

RowsOf(hash) == {f \in files : f.InfoHash = hash}

\* C4: a hash has never more than one file row, and once every file save
\* dispatched by the announces of a hash has been applied it has exactly one.
C4_OneFileRow ==
    \A hash \in Hashes :
        /\ Cardinality(RowsOf(hash)) <= 1
        /\ (/\ \E p \in Slots :
                  pc[p] = "done" /\ IsAnnounce(req[p]) /\ req[p].query.info_hash = hash
            /\ \A p \in Slots : "file" \notin tasks[p])
           => Cardinality(RowsOf(hash)) = 1

\* Two announces both found h2 missing, both saves were applied, one row exists.
C4_Witness ==
    /\ \E p, q \in Slots :
          /\ p # q
          /\ pc[p] = "done" /\ file[p] = [ID |-> 0, InfoHash |-> "h2", Verified |-> FALSE]
          /\ pc[q] = "done" /\ file[q] = [ID |-> 0, InfoHash |-> "h2", Verified |-> FALSE]
    /\ \A p \in Slots : "file" \notin tasks[p]
    /\ Cardinality(RowsOf("h2")) = 1

\* The error an announce gets: bencoded over HTTP, an action=3 packet that
\* echoes the transaction id over UDP.
AnnounceError(r, msg) ==
    IF r.query.udp
    THEN [kind |-> "udp", action |-> 3, transID |-> r.transID, msg |-> msg]
    ELSE [kind |-> "httpError", action |-> 0, transID |-> 0, msg |-> msg]

\* C6: an announce of a hash with no file row answers "Unregistered torrent",
\* starts only the log save and the save of a file with that hash and
\* verified = false, writes no files_users record and starts no reaper; the
\* save, once applied, leaves an unverified row of that hash.
C6_Unregistered ==
    [][\A p \in Slots :
          /\ (/\ Handled(p)
              /\ IsAnnounce(req'[p])
              /\ RowsOf(req'[p].query.info_hash) = {})
             => /\ res'[p] = <<AnnounceError(req'[p], "Unregistered torrent")>>
                /\ tasks'[p] = {"log", "file"}
                /\ file'[p] = [ID |-> 0, InfoHash |-> req'[p].query.info_hash,
                               Verified |-> FALSE]
                /\ fileUser'[p] = ZeroFileUser
                /\ fileUsers' = fileUsers /\ files' = files
          /\ ("file" \in tasks[p] /\ "file" \notin tasks'[p])
             => /\ \E f \in files' : f.InfoHash = req[p].query.info_hash /\ ~f.Verified
                /\ fileUsers' = fileUsers]_vars

\* A UDP and an HTTP announce of h2 were both answered "Unregistered torrent"
\* and the unverified row exists.
C6_Witness ==
    \E p, q \in Slots :
        /\ pc[p] = "done" /\ IsUDPAnnounce(req[p])
        /\ res[p] = <<[kind |-> "udp", action |-> 3, transID |-> req[p].transID,
                       msg |-> "Unregistered torrent"]>>
        /\ pc[q] = "done" /\ IsHTTPAnnounce(req[q])
        /\ res[q] = <<[kind |-> "httpError", action |-> 0, transID |-> 0,
                       msg |-> "Unregistered torrent"]>>
        /\ tasks[p] = {} /\ tasks[q] = {}
        /\ \E f \in files : f.InfoHash = "h2" /\ ~f.Verified

\* C7: an announce or scrape of a file whose row has verified = false answers
\* "Unverified torrent" and nothing else, starts only the log save, and leaves
\* the files and files_users tables as they are.
C7_Unverified ==
    [][\A p \in Slots :
          (/\ Handled(p)
           /\ req'[p].query.wellFormed
           /\ \E f \in RowsOf(req'[p].query.info_hash) : ~f.Verified)
          => /\ res'[p] = <<IF req'[p].op = "announce"
                            THEN AnnounceError(req'[p], "Unverified torrent")
                            ELSE [kind |-> "httpError", action |-> 0, transID |-> 0,
                                  msg |-> "Unverified torrent"]>>
             /\ tasks'[p] = {"log"}
             /\ fileUser'[p] = ZeroFileUser
             /\ fileUsers' = fileUsers /\ files' = files]_vars

\* An announce of the unverified h3 and a scrape of an unverified torrent were
\* both answered "Unverified torrent".
C7_Witness ==
    \E p, q \in Slots :
        /\ pc[p] = "done" /\ IsAnnounce(req[p]) /\ req[p].query.info_hash = "h3"
        /\ res[p][1].msg = "Unverified torrent"
        /\ pc[q] = "done" /\ req[q].op = "scrape" /\ req[q].query.wellFormed
        /\ res[q][1].msg = "Unverified torrent"

\* C8: at most one peer reaper of a file runs at any time.
C8_OneReaperPerFile ==
    \A f \in files :
        Cardinality({p \in Slots : "reaper" \in tasks[p] /\ file[p].ID = f.ID}) <= 1

\* C5: a UDP announce whose connection id is not bound, is bound to another
\* address, or was issued more than 120 s ago is answered with one action=3
\* error packet, never with an action=1 announce response, and starts nothing.
C5_InvalidConnID ==
    [][\A p \in Slots :
          (/\ Handled(p)
           /\ req'[p].op = "udpAnnounce"
           /\ \/ connTable[req'[p].connID] = NoConn
              \/ connTable[req'[p].connID].addr # req'[p].addr
              \/ now - connTable[req'[p].connID].issued > 120)
          => /\ Len(res'[p]) = 1
             /\ res'[p][1].kind = "udp"
             /\ res'[p][1].action = 3
             /\ res'[p][1].transID = req'[p].transID
             /\ tasks'[p] = {}]_vars

\* One announce came more than 120 s after its connection id was issued to its
\* address and got the error; another came in time and got the announce response.
C5_Witness ==
    \E p, q \in Slots :
        /\ pc[p] = "done" /\ req[p].op = "udpAnnounce"
        /\ connTable[req[p].connID].addr = req[p].addr
        /\ now - connTable[req[p].connID].issued > 120
        /\ res[p][1].action = 3
        /\ pc[q] = "done" /\ req[q].op = "udpAnnounce"
        /\ res[q][1].action = 1

\* C11 as stated: after any sequence of UDP announces the set of files_users
\* records and all their fields are unchanged.
C11_RecordsUnchanged == [][fileUsers' = fileUsers]_vars

\* C11: the handler of a UDP announce loads no files_users record, hands none
\* to Save and leaves the table as it is; in a run of UDP announces no record
\* is created or removed and no field of a record changes other than the
\* active flag, which only goes from true to false (the reaper pass).
C11_NoRecordWrite ==
    [][/\ \A p \in Slots :
            (Handled(p) /\ IsUDPAnnounce(req'[p]))
            => /\ fileUsers' = fileUsers
               /\ "fileUser" \notin tasks'[p]
               /\ loaded'[p] = ZeroFileUser
               /\ fileUser'[p] = ZeroFileUser
       /\ Cardinality(fileUsers') = Cardinality(fileUsers)
       /\ \A r \in fileUsers :
            r \in fileUsers' \/ (r.Active /\ [r EXCEPT !.Active = FALSE] \in fileUsers')]_vars

\* A UDP announce of h1 got its announce response while the store held a
\* record of h1, and everything it started has finished.
C11_Witness ==
    \E p \in Slots :
        /\ pc[p] = "done" /\ IsUDPAnnounce(req[p]) /\ req[p].query.info_hash = "h1"
        /\ res[p][1].action = 1
        /\ tasks[p] = {}
        /\ \E r \in fileUsers : r.FileID = 1

\* The announce of slot p was answered with an announce response.
Succeeded(msgs) ==
    /\ Len(msgs) = 1
    /\ \/ msgs[1].kind = "httpAnnounce"
       \/ msgs[1].kind = "udp" /\ msgs[1].action = 1

\* The bodies the response to request r, handled with locals f and fu, may carry.
BodiesOf(r, f, fu) ==
    IF r.query.udp THEN udpAnnounceBody(r.query, f)
    ELSE httpAnnounceBody(r.query, f, fu)

\* The number of peers request r asks for.
C12_Wanted(r) ==
    CASE r.query.numwant = <<"0">> -> 0
      [] r.query.numwant = <<"1">> -> 1
      [] r.query.numwant = <<"2">> -> 2
      [] OTHER -> 50

\* C12: the peer list of every successful announce response, over HTTP and
\* over UDP, holds only addresses of active records of the announced file,
\* holds at most numwant of them, and does not hold the requester's address.
C12_PeerList ==
    [][\A p \in Slots :
          (Handled(p) /\ IsAnnounce(req'[p]) /\ Succeeded(res'[p]))
          => /\ BodiesOf(req'[p], file'[p], fileUser'[p]) # {}
             /\ \A body \in BodiesOf(req'[p], file'[p], fileUser'[p]) :
                  /\ \A ip \in body.peers :
                        \E r \in fileUsers :
                            /\ r.IP = ip /\ r.Active
                            /\ \E f \in RowsOf(req'[p].query.info_hash) : r.FileID = f.ID
                  /\ Cardinality(body.peers) <= C12_Wanted(req'[p])
                  /\ req'[p].query.ip \notin body.peers]_vars

\* An HTTP announce from ip1 that asked for one peer and a UDP announce from
\* ip2 that asked for two were answered while ip2 and ip3, respectively ip1
\* and ip3, were active peers of h1 and ip4 and ip5 were not.
C12_Witness ==
    \E p, q \in Slots :
        /\ pc[p] = "done" /\ IsHTTPAnnounce(req[p]) /\ Succeeded(res[p])
        /\ req[p].query.ip = "ip1" /\ req[p].query.numwant = <<"1">>
        /\ pc[q] = "done" /\ IsUDPAnnounce(req[q]) /\ Succeeded(res[q])
        /\ req[q].query.ip = "ip2" /\ req[q].query.numwant = <<"2">>
        /\ {r.IP : r \in {x \in fileUsers : x.FileID = 1 /\ x.Active}} = {"ip1", "ip2", "ip3"}
        /\ PeerRecord(1, 4, "ip4", FALSE, MaxVal) \in fileUsers
        /\ PeerRecord(2, 5, "ip5", TRUE, 0) \in fileUsers

\* C19: the body of every successful HTTP announce response has, when the
\* requester's record as merged by this announce is not completed,
\* 300 <= interval <= 600 and min interval = 300, and otherwise
\* Interval - 600 <= interval <= Interval and min interval = Interval / 2.
C19_IntervalPolicy ==
    [][\A p \in Slots :
          (Handled(p) /\ IsHTTPAnnounce(req'[p]) /\ Succeeded(res'[p]))
          => /\ httpAnnounceBody(req'[p].query, file'[p], fileUser'[p]) # {}
             /\ \A body \in httpAnnounceBody(req'[p].query, file'[p], fileUser'[p]) :
                  IF ~fileUser'[p].Completed
                  THEN /\ 300 <= body.interval /\ body.interval <= 600
                       /\ body.minInterval = 300
                  ELSE /\ Interval - 600 <= body.interval /\ body.interval <= Interval
                       /\ 2 * body.minInterval <= Interval
                       /\ Interval < 2 * body.minInterval + 2]_vars

\* One HTTP announce was answered for a record it left completed, another for
\* a record it left not completed.
C19_Witness ==
    \E p, q \in Slots :
        /\ pc[p] = "done" /\ IsHTTPAnnounce(req[p]) /\ Succeeded(res[p])
        /\ fileUser[p].Completed
        /\ pc[q] = "done" /\ IsHTTPAnnounce(req[q]) /\ Succeeded(res[q])
        /\ ~fileUser[q].Completed

\* Slot p has applied the routine op.
Applied(p, op) == pc[p] = "done" /\ req[p].op = op

\* The zero-value packet of a parse routine.
ZeroPacketOf(op) ==
    CASE op = "udpPacket.FromBytes" ->
            [ConnID |-> <<0, 0, 0, 0>>, Action |-> <<0, 0>>, TransID |-> <<>>]
      [] op = "udpAnnouncePacket.FromBytes" ->
            [InfoHash |-> <<>>, PeerID |-> <<>>, Downloaded |-> <<0, 0, 0, 0>>,
             Left |-> <<0, 0, 0, 0>>, Uploaded |-> <<0, 0, 0, 0>>,
             Event |-> <<0, 0, 0, 0>>, IP |-> <<0, 0, 0, 0>>, Key |-> <<>>,
             Numwant |-> <<0, 0, 0, 0>>, Port |-> <<0, 0, 0, 0>>]
      [] op = "udpAnnounceResponsePacket.FromBytes" ->
            [Action |-> <<0, 0>>, TransID |-> <<>>, Interval |-> <<0, 0>>,
             Leechers |-> <<0, 0>>, Seeders |-> <<0, 0>>, PeerList |-> <<>>]
      [] OTHER -> [InfoHashes |-> <<>>]

\* C13: every FromBytes routine, on a buffer of any length, returns a parsed
\* packet and no error, or the zero-value packet and an error that carries
\* the transaction id.
C13_ParseSafe ==
    \A p \in Slots :
        \A op \in {"udpPacket.FromBytes", "udpAnnouncePacket.FromBytes",
                    "udpAnnounceResponsePacket.FromBytes", "udpScrapePacket.FromBytes"} :
            Applied(p, op) =>
                /\ Len(res[p]) = 1
                /\ \/ res[p][1].err.nil
                   \/ /\ res[p][1].p = ZeroPacketOf(op)
                      /\ "transID" \in DOMAIN res[p][1].err

\* C14: on a scrape request of K info-hashes in a buffer of 16 + 20*K bytes,
\* udpScrapePacket.FromBytes returns no error and the first min(K, 70)
\* info-hashes in packet order.
C14_ScrapeHashes ==
    \A p \in Slots :
        (Applied(p, "udpScrapePacket.FromBytes") /\ req[p].pad = 0)
        => /\ res[p][1].err.nil
           /\ res[p][1].p.InfoHashes =
                SubSeq(req[p].hashes, 1, Min2(Len(req[p].hashes), 70))

\* C15: a UDP announce whose numwant field is 0xFFFFFFFF is parsed with
\* numwant = 50 and one with any other numwant field with that value; an HTTP
\* announce uses 50 when numwant is absent or not an integer and the integer
\* otherwise.
C15_NumwantDefault ==
    \A p \in Slots :
        /\ (Applied(p, "udpAnnouncePacket.FromBytes") /\ req[p].buf.len = 98)
           => /\ res[p][1].err.nil
              /\ res[p][1].p.Numwant =
                   IF SubSeq(req[p].buf.bytes, 93, 96) = <<255, 255, 255, 255>>
                   THEN <<0, 0, 0, 50>>
                   ELSE <<0, 0,
                          256 * req[p].buf.bytes[93] + req[p].buf.bytes[94],
                          256 * req[p].buf.bytes[95] + req[p].buf.bytes[96]>>
        /\ Applied(p, "numwant")
           => res[p][1] =
                CASE req[p].query.numwant = <<"0">> -> 0
                  [] req[p].query.numwant = <<"1", "0">> -> 10
                  [] req[p].query.numwant = <<"-", "1">> -> 0 - 1
                  [] OTHER -> 50

\* C16: the bytes udpTrackerAnnounce writes for a transaction id, an
\* interval, leecher and seeder counts and N compact peers decode, with
\* udpAnnounceResponsePacket.FromBytes, to action 1 and the same transaction
\* id, interval, leechers, seeders and peers in the same order.
C16_RoundTrip ==
    \A p \in Slots :
        Applied(p, "udpTrackerAnnounce")
        => /\ res[p][1].err.nil
           /\ res[p][1].p.Action = <<0, 1>>
           /\ res[p][1].p.TransID = req[p].transID
           /\ res[p][1].p.Interval = req[p].interval
           /\ res[p][1].p.Leechers = req[p].leechers
           /\ res[p][1].p.Seeders = req[p].seeders
           /\ res[p][1].p.PeerList = req[p].peers

\* A response with two peers and values that have the top bit set, and one
\* with no peer, went through the round trip.
C16_Witness ==
    \E p, q \in Slots :
        /\ Applied(p, "udpTrackerAnnounce")
        /\ Len(req[p].peers) = 2 /\ req[p].peers[1] # req[p].peers[2]
        /\ req[p].interval = <<65535, 65535>> /\ req[p].leechers # req[p].seeders
        /\ req[p].transID = <<255, 255, 255, 255>>
        /\ Len(res[p][1].p.PeerList) = 2
        /\ Applied(q, "udpTrackerAnnounce") /\ req[q].peers = <<>>
        /\ res[q][1].err.nil

\* The four counters' totals never decrease.
TotalsMonotone ==
    /\ static'.HTTP.Total >= static.HTTP.Total
    /\ static'.UDP.Total >= static.UDP.Total

\* The step of a status tick past its HTTP block and past its UDP block leaves
\* that protocol's current counter at 0 and both totals as they were.
TickResets ==
    /\ (printer.pc = "http" /\ printer'.pc = "udp") =>
          /\ static'.HTTP.Current = 0
          /\ static'.HTTP.Total = static.HTTP.Total
          /\ static'.UDP = static.UDP
    /\ (printer.pc = "udp" /\ printer'.pc = "idle") =>
          /\ static'.UDP.Current = 0
          /\ static'.UDP.Total = static.UDP.Total
          /\ static'.HTTP = static.HTTP

\* C17 as stated: http.total and udp.total never decrease, and each status
\* tick resets http.current and udp.current to 0 while leaving both totals
\* unchanged: every call of printCurrentStatus goes through both resets, so
\* it returns only from its last block.
C17_EveryTickResets ==
    [][/\ TotalsMonotone
       /\ TickResets
       /\ (printer.pc = "idle" /\ printer' # printer) => printer'.pc # "idle"]_vars

\* C17: http.total and udp.total never decrease; a status tick whose
\* getServerStatus succeeds resets http.current and udp.current to 0 while
\* leaving both totals unchanged; a status tick whose getServerStatus fails
\* (the hostname cannot be read) logs that and changes no counter.
C17_Counters ==
    [][/\ TotalsMonotone
       /\ TickResets
       /\ (printer.pc = "idle" /\ printer' # printer /\ printer'.pc = "idle") =>
             /\ static' = static
             /\ printer'.log = <<[line |-> "Could not print current status"]>>]_vars

\* C17: a status tick has completed with both protocols enabled after requests
\* of both were accepted: it read non-zero current counters, both current
\* counters are 0 and both totals are what they were.
C17_Witness ==
    /\ printer.pc = "idle"
    /\ Len(printer.log) = 2
    /\ printer.stat.HTTP.Current > 0
    /\ printer.stat.UDP.Current > 0
    /\ static.HTTP = [Current |-> 0, Total |-> MaxAccepts]
    /\ static.UDP = [Current |-> 0, Total |-> MaxAccepts]

\* C18: every invocation of trackerAnnounce, trackerScrape and getStatusJSON
\* eventually sends exactly one message on its result channel, on every path
\* and whether or not the asynchronous saves complete.
C18_OneMessage ==
    \A p \in Slots :
        /\ <>(pc[p] = "done")
        /\ [](pc[p] = "done" => Len(res[p]) = 1)

\* C20: a user created with Create(username, limit) has a passkey of exactly
\* 40 characters; after Save, Load(username, "username") returns a non-empty
\* record with the same passkey; and Delete of that loaded record succeeds.
C20_UserLifeCycle ==
    /\ session.pc \in {"created", "saved", "loaded"} =>
          Len(session.user.Passkey) = PasskeyLen
    /\ session.pc = "loaded" =>
          /\ session.user2 # ZeroUserRecord
          /\ session.user2.Passkey = session.user.Passkey
    /\ session.pc = "deleted" =>
          /\ session.ok
          /\ \A row \in users.rows : row.Username # session.user.Username

\* C20: a user was created, saved, loaded and deleted on a table that holds
\* another user, one saved in an earlier life cycle.
C20_Witness ==
    /\ session.pc = "deleted"
    /\ session.ok
    /\ Len(session.user2.Passkey) = PasskeyLen
    /\ session.user2.Passkey = session.user.Passkey
    /\ \E row \in users.rows : row.ID > Cardinality(PriorUsers)

\* C21: an HTTP announce of a verified file that finds a record of its triple
\* hands to Save that record with active = false exactly when the event is
\* "stopped" (and active = true for any other event, whatever the flag was
\* before) and with announced one more than the record it loaded held; the
\* save, once applied, stores that record.
C21_ActiveFlag ==
    [][\A p \in Slots :
          /\ (/\ Handled(p)
              /\ IsHTTPAnnounce(req'[p])
              /\ IsVerified(FileLoad(req'[p].query.info_hash))
              /\ FileUserLoad(FileLoad(req'[p].query.info_hash).ID,
                              req'[p].user, req'[p].query.ip) # ZeroFileUser)
             => LET prior == FileUserLoad(FileLoad(req'[p].query.info_hash).ID,
                                          req'[p].user, req'[p].query.ip) IN
                /\ "fileUser" \in tasks'[p]
                /\ loaded'[p] = prior
                /\ fileUser'[p].Active = (req'[p].query.event # "stopped")
                /\ fileUser'[p].Announced = prior.Announced + 1
          /\ (/\ "fileUser" \in tasks[p] /\ "fileUser" \notin tasks'[p]
              /\ loaded[p] # ZeroFileUser)
             => \E r \in fileUsers' :
                   /\ r = fileUser[p]
                   /\ r.Active = (req[p].query.event # "stopped")
                   /\ r.Announced = loaded[p].Announced + 1]_vars

\* C21: a record that a reaper pass had marked inactive (no announce was
\* "stopped") was announced again with event "started": it was handed to Save
\* active with announced one more, and stored; and a record was announced with
\* "stopped" and handed to Save inactive.
C21_Witness ==
    \E p, q \in Slots :
        /\ p # q
        /\ Recorded(p) /\ Recorded(q)
        /\ req[q].query.event # "stopped"
        /\ req[p].query.event = "started"
        /\ loaded[p] # ZeroFileUser /\ ~loaded[p].Active
        /\ fileUser[p].Active
        /\ fileUser[p].Announced = loaded[p].Announced + 1
        /\ fileUser[p] \in fileUsers

\* The number of increments of a protocol's current counter so far: every
\* acceptance increments current and total together and nothing else writes
\* total.
Increments(proto) == static[proto].Total

\* C22: no accepted request is lost from the per-tick gauge: under any
\* interleaving of increments with printCurrentStatus, the sum of the current
\* values the status ticks have reported plus the live current value equals
\* the number of increments, for HTTP and for UDP.
C22_NoLostIncrement ==
    /\ printer.reported.HTTP + static.HTTP.Current = Increments("HTTP")
    /\ printer.reported.UDP + static.UDP.Current = Increments("UDP")

\* The unsigned big-endian value of bytes lo+1..hi of a buffer, as the four
\* 16-bit words of a 64-bit integer.
UnsignedField(bytes, lo, hi) ==
    LET w == BigEndianWords(SubSeq(bytes, lo + 1, hi)) IN
    [i \in 1..4 |-> IF i <= 4 - Len(w) THEN 0 ELSE w[i - (4 - Len(w))]]

\* C23: udpAnnouncePacket.FromBytes accepts every buffer of at least 98 bytes:
\* it returns no error and downloaded, left, uploaded, event, ip, numwant and
\* port equal the unsigned big-endian values of their bytes (numwant
\* 0xFFFFFFFF being read as 50), top bit set or not.
C23_AcceptsAll ==
    \A p \in Slots :
        (Applied(p, "udpAnnouncePacket.FromBytes") /\ req[p].buf.len >= 98)
        => LET bytes == req[p].buf.bytes
               u == res[p][1].p
           IN  /\ res[p][1].err.nil
               /\ u.Downloaded = UnsignedField(bytes, 56, 64)
               /\ u.Left = UnsignedField(bytes, 64, 72)
               /\ u.Uploaded = UnsignedField(bytes, 72, 80)
               /\ u.Event = UnsignedField(bytes, 80, 84)
               /\ u.IP = UnsignedField(bytes, 84, 88)
               /\ u.Numwant = IF SubSeq(bytes, 93, 96) = <<255, 255, 255, 255>>
                              THEN <<0, 0, 0, 50>>
                              ELSE UnsignedField(bytes, 92, 96)
               /\ u.Port = UnsignedField(bytes, 96, 98)

====
